---- MODULE Spec2Model ----
(***************************************************************************)
(* A model of backup_phone.py: the backup of a directory tree of an        *)
(* android device to a local directory through adb.                        *)
(*                                                                         *)
(* A path string is a sequence of one-character strings, so that the       *)
(* separator conversions of the program are computed, not assumed.  The    *)
(* remote tree is keyed by linux-format relative paths (what find prints), *)
(* the local tree by tuples of path components (what the local file system *)
(* resolves a path string to).                                             *)
(***************************************************************************)
EXTENDS Integers, Sequences, FiniteSets, TLC

\* ------------------------------------------------------------------ bounds

\* File sizes range over 1..MaxSize.
MaxSize == 2

\* ---------------------------------------------------------------- universe

Digests == {"d1", "d2"}

\* Linux-format relative paths of the remote tree.
PA  == <<"a">>
PAB == <<"a", "/", "b">>
PC  == <<"c">>
Paths == {PA, PAB, PC}

\* Local file-system keys: tuples of path components.
Keys == {<< <<"a">> >>, << <<"a">>, <<"b">> >>, << <<"c">> >>}

\* os.path.sep of the platform the program runs on (posix, nt).
Seps == {"/", "\\"}

NoEntry  == [kind |-> "none", size |-> 0, digest |-> "-"]
DirEntry == [kind |-> "dir", size |-> 0, digest |-> "-"]
FileEntry(s, d) == [kind |-> "file", size |-> s, digest |-> d]
Contents == {FileEntry(s, d) : s \in 1..MaxSize, d \in Digests}
Entries  == {NoEntry, DirEntry} \cup Contents

\* ------------------------------------------------------- string utilities

\* str.replace(old, new) for one-character old and new.
Replace(f, old, new) == [i \in DOMAIN f |-> IF f[i] = old THEN new ELSE f[i]]

filename2osformat(f, sep) == Replace(f, "/", sep)

\* Mutant: the conversion of the local listing to linux format is left out.
filename2linuxformat_Kept(f, sep) == f

filename2linuxformat(f, sep) == Replace(f, sep, "/")

\* '/'.join(args) of two arguments where the first is the (fixed) source
\* root: the path relative to the source root is kept as the key.
linux_path_build(f) == f

\* os.path.join(d, nf) on relative paths.
os_path_join(d, nf, sep) == d \o <<sep>> \o nf

\* The components the local file system resolves a relative os-format
\* path string to.
RECURSIVE Split(_, _)
Split(s, sep) ==
    IF s = <<>> THEN << <<>> >>
    ELSE LET rest == Split(Tail(s), sep)
         IN  IF Head(s) = sep
             THEN << <<>> >> \o rest
             ELSE << <<Head(s)>> \o Head(rest) >> \o Tail(rest)

\* os.path.join(dst_path, filename2osformat(f)), resolved.
LocalKey(f, sep) == Split(filename2osformat(f, sep), sep)

\* Code points of the characters in use, for list.sort() on strings.
Ord(c) == CASE c = "/" -> 47 [] c = "\\" -> 92 [] c = "a" -> 97
            [] c = "b" -> 98 [] c = "c" -> 99 [] OTHER -> 0

RECURSIVE StrLess(_, _)
StrLess(s, t) ==
    IF t = <<>> THEN FALSE
    ELSE IF s = <<>> THEN TRUE
    ELSE IF Head(s) = Head(t) THEN StrLess(Tail(s), Tail(t))
    ELSE Ord(Head(s)) < Ord(Head(t))

\* All orderings of a finite set as duplicate-free sequences: list(set).
Orderings(S) ==
    {q \in [1..Cardinality(S) -> S] : \A i, j \in 1..Cardinality(S) : i # j => q[i] # q[j]}

Range(q) == {q[i] : i \in DOMAIN q}

\* -------------------------------------------------- local file system

KindAt(fs, k) == IF k \in DOMAIN fs THEN fs[k].kind ELSE "none"

os_path_exists(fs, k) == KindAt(fs, k) # "none"

\* Mutant: whatever exists counts as a file.
os_path_isfile_Any(fs, k) == KindAt(fs, k) # "none"

os_path_isfile(fs, k) == KindAt(fs, k) = "file"
os_path_isdir(fs, k)  == KindAt(fs, k) = "dir"

ProperPrefixes(k) == {SubSeq(k, 1, i) : i \in 1..(Len(k) - 1)}

\* A tree is well formed when every entry lies in a directory.
WellFormed(fs) ==
    \A k \in DOMAIN fs :
        fs[k].kind # "none" => \A p \in ProperPrefixes(k) : KindAt(fs, p) = "dir"

\* os.makedirs(full_path, exist_ok=True): the leaf and its missing
\* ancestors become directories; an ancestor that is a file is an OSError.
makedirs_fails(fs, k) ==
    \/ k \notin DOMAIN fs
    \/ \E p \in ProperPrefixes(k) : os_path_isfile(fs, p)
    \/ os_path_isfile(fs, k)

makedirs(fs, k) ==
    [x \in DOMAIN fs |->
        IF x = k \/ x \in ProperPrefixes(k) THEN DirEntry ELSE fs[x]]

\* os.remove of one file.
os_remove(fs, k) == [fs EXCEPT ![k] = NoEntry]

\* delete_files(dst_path, files): os.remove of each file in turn; removing a
\* path that is not a file raises and leaves the rest in place.
RECURSIVE delete_files(_, _, _)
delete_files(fs, files, sep) ==
    IF files = <<>> THEN [fs |-> fs, err |-> "none"]
    ELSE LET k == LocalKey(Head(files), sep)
         IN  IF ~os_path_isfile(fs, k)
             THEN [fs |-> fs, err |-> "OSError"]
             ELSE delete_files(os_remove(fs, k), Tail(files), sep)

\* Mutant: a path that exists is skipped whatever it is.
RECURSIVE CreateLoop_NoTypeCheck(_, _, _)
CreateLoop_NoTypeCheck(fs, dirs, sep) ==
    IF dirs = <<>> THEN [fs |-> fs, err |-> "none", at |-> <<>>]
    ELSE LET d == Head(dirs)
             k == LocalKey(d, sep)
         IN  IF ~os_path_exists(fs, k)
             THEN IF makedirs_fails(fs, k)
                  THEN [fs |-> fs, err |-> "OSError", at |-> d]
                  ELSE CreateLoop_NoTypeCheck(makedirs(fs, k), Tail(dirs), sep)
             ELSE CreateLoop_NoTypeCheck(fs, Tail(dirs), sep)

\* create_all_directories(path, dirs): dirs.sort(), then each directory is
\* created unless its path exists; a path that exists and is no directory
\* raises TypeError.
RECURSIVE CreateLoop(_, _, _)
CreateLoop(fs, dirs, sep) ==
    IF dirs = <<>> THEN [fs |-> fs, err |-> "none", at |-> <<>>]
    ELSE LET d == Head(dirs)
             k == LocalKey(d, sep)
         IN  IF ~os_path_exists(fs, k)
             THEN IF makedirs_fails(fs, k)
                  THEN [fs |-> fs, err |-> "OSError", at |-> d]
                  ELSE CreateLoop(makedirs(fs, k), Tail(dirs), sep)
             ELSE IF ~os_path_isdir(fs, k)
                  THEN [fs |-> fs, err |-> "TypeError", at |-> d]
                  ELSE CreateLoop(fs, Tail(dirs), sep)

create_all_directories(fs, dirs, sep) ==
    CreateLoop(fs, SortSeq(dirs, StrLess), sep)

\* get_dst_all_files_and_dirs(dst_path): the recursive listing below the
\* directory `base`, as os-format paths relative to it.  The lists of the
\* code are read as sets by their only caller.
RECURSIVE get_dst_all_files_and_dirs(_, _, _)
get_dst_all_files_and_dirs(fs, base, sep) ==
    LET items == {k[Len(k)] : k \in {x \in DOMAIN fs :
                      /\ Len(x) = Len(base) + 1
                      /\ SubSeq(x, 1, Len(base)) = base
                      /\ os_path_exists(fs, x)}}
        files == {f \in items : os_path_isfile(fs, base \o <<f>>)}
        dirs  == {f \in items : os_path_isdir(fs, base \o <<f>>)}
        sub(d) == get_dst_all_files_and_dirs(fs, base \o <<d>>, sep)
    IN  [files |-> files \cup
                   UNION {{os_path_join(d, nf, sep) : nf \in sub(d).files} : d \in dirs},
         dirs  |-> dirs \cup
                   UNION {{os_path_join(d, nf, sep) : nf \in sub(d).dirs} : d \in dirs}]

\* ------------------------------------------------------ the remote side

\* get_src_all_files_and_dirs: find -L . -type f, find -L . -type d.
get_src_all_files_and_dirs(rm) ==
    [files |-> {p \in DOMAIN rm : rm[p].kind = "file"},
     dirs  |-> {p \in DOMAIN rm : rm[p].kind = "dir"}]

get_src_file_size(rm, f) == rm[linux_path_build(f)].size

\* Mutant: the output of sha1sum is kept whole, file name included.
get_src_sha1sum_Uncut(rm, f) == "uncut"

get_src_sha1sum(rm, f) == rm[linux_path_build(f)].digest

\* os.path.getsize and sha1sum of a local file.
os_path_getsize(fs, k) == fs[k].size

get_dst_sha1sum(fs, f, sep) == fs[LocalKey(f, sep)].digest

\* ------------------------------------------------------------ comparison

\* Mutant: every local file counts as existing, remote or not.
get_missing_and_existing_files_AllLocal(rm, fs, sep) ==
    LET src == get_src_all_files_and_dirs(rm)
        dst == get_dst_all_files_and_dirs(fs, <<>>, sep)
        dst_files == {filename2linuxformat(f, sep) : f \in dst.files}
        dst_dirs  == {filename2linuxformat(f, sep) : f \in dst.dirs}
    IN  [missing_files |-> src.files \ dst_files, existing_files |-> dst_files,
         missing_dirs |-> src.dirs \ dst_dirs, existing_dirs |-> src.dirs \cap dst_dirs,
         bad_type_items |-> {}]

\* get_missing_and_existing_files: the four sets, and bad_type_items.
get_missing_and_existing_files(rm, fs, sep) ==
    LET src == get_src_all_files_and_dirs(rm)
        dst == get_dst_all_files_and_dirs(fs, <<>>, sep)
        dst_files == {filename2linuxformat(f, sep) : f \in dst.files}
        dst_dirs  == {filename2linuxformat(f, sep) : f \in dst.dirs}
        missing_f  == src.files \ dst_files
        existing_f == src.files \cap dst_files
        missing_d  == src.dirs \ dst_dirs
        existing_d == src.dirs \cap dst_dirs
    IN  [missing_files |-> missing_f, existing_files |-> existing_f,
         missing_dirs |-> missing_d, existing_dirs |-> existing_d,
         bad_type_items |-> (existing_f \cap missing_d) \cup (missing_f \cap existing_d)]

\* Mutant: the filter of verify compares the sha1sums only.
IsFaulty_DigestOnly(rm, fs, f, sep) ==
    get_src_sha1sum(rm, f) # get_dst_sha1sum(fs, f, sep)

\* The filter of verify: sha1sums differ or sizes differ.
IsFaulty(rm, fs, f, sep) ==
    \/ get_src_sha1sum(rm, f) # get_dst_sha1sum(fs, f, sep)
    \/ get_src_file_size(rm, f) # os_path_getsize(fs, LocalKey(f, sep))

\* verify(adb_path, src_path, dst_path, existing_files): the faulty files,
\* in the order of existing_files.
verify(rm, fs, existing, sep) ==
    SelectSeq(existing, LAMBDA f : IsFaulty(rm, fs, f, sep))

\* The checks of pull_file after adb pull has returned.
PullStatus(rm, fs, f, sep) ==
    LET k == LocalKey(f, sep)
    IN  IF ~os_path_isfile(fs, k)
        THEN IF os_path_exists(fs, k) THEN "raise" ELSE "not_pulled"
        ELSE IF get_src_file_size(rm, f) # os_path_getsize(fs, k) THEN "wrong_size"
        ELSE IF get_src_sha1sum(rm, f) # get_dst_sha1sum(fs, f, sep) THEN "wrong_hash"
        ELSE "success"

\* ----------------------------------------------------------------- state

VARIABLES
    os_sep,            \* os.path.sep
    src_type,       \* get_src_path_type: "directory", "file" or "none"
    remote,         \* the tree below the source root (of its parent, for a file)
    local,          \* the tree below dst_path
    pc,             \* the position of main
    err,            \* how the run ended early: message kind and paths named
    args,           \* the flags of the command line, once the checks have passed
    missing_files, existing_files, missing_dirs, existing_dirs,
    bad_files,      \* the result of verify
    failed_files,
    idx,            \* the position of the pull loop in missing_files
    attempts,       \* history: the adb pull invocations of this run, per path
    last,           \* history: the last return of pull_file and its cleanup
    mutated,        \* history: the run changed the local tree
    verify_deleted, \* history: the files the verify step deleted
    start_empty,    \* history: the local tree was empty when the run began
    all_intact,     \* history: every transfer of the run delivered the remote bytes
    reply,          \* history: the answer to 'Delete files?': "yes", "no", or
                    \* "none" when the question was not asked
    prev            \* history: how the previous run went, when it had no flag
                    \* and reported: "plain_failed" (some pull failed),
                    \* "plain_pulled" (every pull succeeded), "plain_idle"
                    \* (nothing to pull); else "none"

vars == <<os_sep, src_type, remote, local, pc, err, args, missing_files,
          existing_files, missing_dirs, existing_dirs, bad_files, failed_files,
          idx, attempts, last, mutated, verify_deleted, start_empty, all_intact,
          reply, prev>>

NoArgs == [verify |-> FALSE, auto |-> FALSE, override |-> FALSE, yes |-> FALSE]
ArgSets == [verify : BOOLEAN, auto : BOOLEAN, override : BOOLEAN, yes : BOOLEAN]
NoErr == [kind |-> "none", at |-> {}]
NoLast == [f |-> <<>>, status |-> "none", found |-> NoEntry, deleted |-> FALSE]

\* What the checks before the listing can find (lines 241-250).
Envs == {"ok", "bad_adb", "bad_dst", "no_device"}

\* In single-file mode the source is the file c of its directory.
filename == PC

\* The bytes of the remote files: one content per path, of different sizes
\* and digests, so that a comparison with another file's values shows.
RemoteContent(p) == IF p = PC THEN FileEntry(1, "d2") ELSE FileEntry(MaxSize, "d1")

RemoteTrees(t) ==
    {rm \in [Paths -> Entries] :
        /\ \A p \in Paths : rm[p].kind = "file" => rm[p] = RemoteContent(p)
        /\ rm[PAB].kind # "none" => rm[PA].kind = "dir"
        /\ t = "none" => \A p \in Paths : rm[p].kind = "none"
        /\ t = "file" => rm[PC].kind = "file"}

LocalTrees == {fs \in [Keys -> Entries] : WellFormed(fs)}

EmptyTree(fs) == \A k \in DOMAIN fs : fs[k].kind = "none"

RunInit ==
    /\ pc = "start"
    /\ err = NoErr
    /\ args = NoArgs
    /\ missing_files = <<>> /\ existing_files = <<>>
    /\ missing_dirs = <<>> /\ existing_dirs = <<>>
    /\ bad_files = <<>>
    /\ failed_files = <<>>
    /\ idx = 0
    /\ attempts = [p \in Paths |-> 0]
    /\ last = NoLast
    /\ mutated = FALSE
    /\ verify_deleted = {}
    /\ all_intact = TRUE
    /\ reply = "none"

\* A run of main on any source and any destination tree.
MainInit ==
    /\ os_sep \in Seps
    /\ src_type \in {"directory", "file", "none"}
    /\ remote \in RemoteTrees(src_type)
    /\ local \in LocalTrees
    /\ start_empty = EmptyTree(local)
    /\ prev = "none"
    /\ RunInit

\* The lists of directories create_all_directories can be called with.
DirLists == UNION {Orderings(S) : S \in SUBSET Paths}

\* A call of create_all_directories on its own, with any list of directories
\* on any destination tree (main calls it with the missing ones only).
CallInit ==
    /\ os_sep \in Seps
    /\ src_type = "none"
    /\ remote = [p \in Paths |-> NoEntry]
    /\ local \in LocalTrees
    /\ start_empty = EmptyTree(local)
    /\ prev = "none"
    /\ pc = "call"
    /\ err = NoErr
    /\ args = NoArgs
    /\ missing_files = <<>> /\ existing_files = <<>>
    /\ missing_dirs \in DirLists
    /\ existing_dirs = <<>>
    /\ bad_files = <<>>
    /\ failed_files = <<>>
    /\ idx = 0
    /\ attempts = [p \in Paths |-> 0]
    /\ last = NoLast
    /\ mutated = FALSE
    /\ verify_deleted = {}
    /\ all_intact = TRUE
    /\ reply = "none"

Init == MainInit \/ CallInit

\* ---------------------------------------------------------------- actions

Crash(kind, at) ==
    /\ pc' = "crashed"
    /\ err' = [kind |-> kind, at |-> at]

\* Mutant: the type of the source path is not looked at.
Preconditions_NoSourceCheck(env, t) == env

\* main, lines 241-257: the checks in their order; the first that fails names
\* the message, "ok" when all pass.
Preconditions(env, t) ==
    IF env # "ok" THEN env
    ELSE IF t = "none" THEN "no_source"
    ELSE "ok"

\* main, lines 232-257: the command line, the checks of the adb path, of the
\* destination and of the device, and the type of the source path.
ParseAndValidate ==
    /\ pc = "start"
    /\ \E env \in Envs :
          LET failure == Preconditions(env, src_type)
          IN  \/ /\ failure # "ok"
                 /\ pc' = "aborted" /\ err' = [kind |-> failure, at |-> {}]
                 /\ args' = args
              \/ /\ failure = "ok"
                 /\ \E a \in ArgSets : args' = a
                 /\ pc' = "reconcile" /\ err' = err
    /\ UNCHANGED <<os_sep, src_type, remote, local, missing_files, existing_files,
                   missing_dirs, existing_dirs, bad_files, failed_files, idx,
                   attempts, last, mutated, verify_deleted, start_empty,
                   all_intact, reply, prev>>

\* main, lines 258-275: the four lists, in single-file mode or from
\* get_missing_and_existing_files.  list(set) has no fixed order.
Reconcile ==
    /\ pc = "reconcile"
    /\ IF src_type = "file"
       THEN LET k == LocalKey(filename, os_sep)
            IN  IF os_path_exists(local, k)
                THEN IF ~os_path_isfile(local, k)
                     THEN /\ Crash("TypeError", {filename})
                          /\ UNCHANGED <<missing_files, existing_files,
                                         missing_dirs, existing_dirs>>
                     ELSE /\ existing_files' = <<filename>>
                          /\ missing_files' = <<>>
                          /\ missing_dirs' = <<>> /\ existing_dirs' = <<>>
                          /\ pc' = "create_dirs" /\ err' = err
                ELSE /\ missing_files' = <<filename>>
                     /\ existing_files' = <<>>
                     /\ missing_dirs' = <<>> /\ existing_dirs' = <<>>
                     /\ pc' = "create_dirs" /\ err' = err
       ELSE LET r == get_missing_and_existing_files(remote, local, os_sep)
            IN  IF r.bad_type_items # {}
                THEN /\ Crash("TypeError", r.bad_type_items)
                     /\ UNCHANGED <<missing_files, existing_files, missing_dirs,
                                    existing_dirs>>
                ELSE /\ missing_files' \in Orderings(r.missing_files)
                     /\ existing_files' \in Orderings(r.existing_files)
                     /\ missing_dirs' \in Orderings(r.missing_dirs)
                     /\ existing_dirs' \in Orderings(r.existing_dirs)
                     /\ pc' = "create_dirs" /\ err' = err
    /\ UNCHANGED <<os_sep, src_type, remote, local, args, bad_files, failed_files,
                   idx, attempts, last, mutated, verify_deleted, start_empty,
                   all_intact, reply, prev>>

\* main, lines 277-280: create_all_directories(dst_path, missing_dirs), which
\* sorts the caller's list in place.
CreateDirs ==
    /\ pc = "create_dirs"
    /\ LET r == create_all_directories(local, missing_dirs, os_sep)
       IN  /\ local' = r.fs
           /\ mutated' = (mutated \/ r.fs # local)
           /\ IF r.err # "none"
              THEN Crash(r.err, {r.at})
              ELSE pc' = "verify" /\ err' = err
    /\ missing_dirs' = SortSeq(missing_dirs, StrLess)
    /\ UNCHANGED <<os_sep, src_type, remote, args, missing_files, existing_files,
                   existing_dirs, bad_files, failed_files, idx, attempts, last,
                   verify_deleted, start_empty, all_intact,
                   reply, prev>>

\* create_all_directories called on its own.
CallCreateDirs ==
    /\ pc = "call"
    /\ LET r == create_all_directories(local, missing_dirs, os_sep)
       IN  /\ local' = r.fs
           /\ mutated' = (r.fs # local)
           /\ err' = [kind |-> r.err, at |-> IF r.err = "none" THEN {} ELSE {r.at}]
    /\ pc' = "returned"
    /\ missing_dirs' = SortSeq(missing_dirs, StrLess)
    /\ UNCHANGED <<os_sep, src_type, remote, args, missing_files, existing_files,
                   existing_dirs, bad_files, failed_files, idx, attempts, last,
                   verify_deleted, start_empty, all_intact,
                   reply, prev>>

\* Mutant: the run goes on to the pull after the verification.
verify_only_Never(a) == FALSE

\* main, lines 293-295: with --verify the run stops after the verification.
verify_only(a) == a.verify

\* Mutant: the faulty files are deleted whatever the answer.
approved_Always(yes, answer) == TRUE

\* main, line 288: --yes, or a yes to ask_user_yes_no.
approved(yes, answer) == yes \/ answer

\* main, lines 282-295: verification of the existing files, the deletion of
\* the faulty ones when approved, and their move to the missing list.  The
\* faulty files are files of the local tree, so delete_files does not raise.
VerifyStep ==
    /\ pc = "verify"
    /\ IF args.verify \/ args.auto
       THEN LET bad == verify(remote, local, existing_files, os_sep)
            IN  \E answer \in BOOLEAN :
                  \* ask_user_yes_no is reached only with faulty files and no --yes
                  /\ (bad = <<>> \/ args.yes) => answer = FALSE
                  /\ bad_files' = bad
                  /\ IF bad # <<>> /\ approved(args.yes, answer)
                     THEN LET r == delete_files(local, bad, os_sep)
                          IN  /\ local' = r.fs
                              /\ verify_deleted' = Range(bad)
                     ELSE UNCHANGED <<local, verify_deleted>>
                  /\ missing_files' = missing_files \o bad
                  /\ existing_files' \in Orderings(Range(existing_files) \ Range(bad))
                  /\ reply' = IF bad = <<>> \/ args.yes THEN "none"
                              ELSE IF answer THEN "yes" ELSE "no"
                  /\ pc' = IF verify_only(args) THEN "done" ELSE "override"
       ELSE /\ pc' = "override"
            /\ UNCHANGED <<bad_files, local, verify_deleted, missing_files,
                           existing_files, reply>>
    /\ mutated' = (mutated \/ local' # local)
    /\ UNCHANGED <<os_sep, src_type, remote, err, args, missing_dirs, existing_dirs,
                   failed_files, idx, attempts, last, start_empty, all_intact, prev>>

\* main, lines 297-311: the override of the existing files when approved, and
\* the entry of the pull loop (skipped with nothing to pull).
OverrideStep ==
    /\ pc = "override"
    /\ \E answer \in BOOLEAN :
          \* ask_user_yes_no is reached only with --override and no --yes
          /\ (~args.override \/ args.yes) => answer = FALSE
          /\ missing_files' =
                IF args.override /\ (args.yes \/ answer)
                THEN missing_files \o existing_files
                ELSE missing_files
    /\ idx' = 1
    /\ pc' = IF missing_files' # <<>> THEN "pull" ELSE "report"
    /\ UNCHANGED <<os_sep, src_type, remote, local, err, args, existing_files,
                   missing_dirs, existing_dirs, bad_files, failed_files, attempts,
                   last, mutated, verify_deleted, start_empty, all_intact,
                   reply, prev>>

\* What one invocation of adb pull can do: exit non-zero (having written
\* nothing), exit zero having written nothing, or exit zero having written
\* some bytes to the destination, the remote ones or others.
CmdFail == [kind |-> "cmd_fail", size |-> 0, digest |-> "-"]
Nothing == [kind |-> "nothing", size |-> 0, digest |-> "-"]
Transfers == {CmdFail, Nothing} \cup Contents

\* adb can write the file when its directory exists and no directory has its name.
CanWrite(fs, k) ==
    /\ k \in DOMAIN fs
    /\ \A p \in ProperPrefixes(k) : os_path_isdir(fs, p)
    /\ ~os_path_isdir(fs, k)

\* run(cmd) of the adb pull command: check_output raises CalledProcessError
\* on a non-zero exit.
run_pull(fs, f, t, sep) ==
    IF t = CmdFail THEN [fs |-> fs, raised |-> TRUE]
    ELSE IF t = Nothing THEN [fs |-> fs, raised |-> FALSE]
    ELSE [fs |-> [fs EXCEPT ![LocalKey(f, sep)] = t], raised |-> FALSE]

\* pull_file(adb_path, src_path, dst_path, f): the status returned, or the
\* exception raised (line 157 raises a str, which is a TypeError).
pull_file(rm, fs, f, t, sep) ==
    LET r == run_pull(fs, f, t, sep)
        st == PullStatus(rm, r.fs, f, sep)
    IN  IF r.raised THEN [fs |-> r.fs, status |-> "CalledProcessError"]
        ELSE IF st = "raise" THEN [fs |-> r.fs, status |-> "TypeError"]
        ELSE [fs |-> r.fs, status |-> st]

Raised(status) == status \in {"CalledProcessError", "TypeError"}

\* Mutant: the cleanup deletes whatever arrived, a good file too.
Cleanup_AlsoSuccess(fs, f, status, sep) ==
    IF status # "not_pulled"
    THEN delete_files(fs, <<f>>, sep).fs
    ELSE fs

\* The cleanup of the pull loop, lines 316-321: a failed file that arrived is deleted.
Cleanup(fs, f, status, sep) ==
    IF status # "success" /\ status # "not_pulled"
    THEN delete_files(fs, <<f>>, sep).fs
    ELSE fs

\* main, lines 313-322: one iteration of the pull loop.
PullOne ==
    /\ pc = "pull"
    /\ idx \in 1..Len(missing_files)
    /\ LET f == missing_files[idx]
           k == LocalKey(f, os_sep)
       IN  \E t \in Transfers :
             /\ t \in Contents => CanWrite(local, k)
             /\ LET r == pull_file(remote, local, f, t, os_sep)
                IN  /\ attempts' = [attempts EXCEPT ![f] = @ + 1]
                    /\ all_intact' = (all_intact /\ t = remote[f])
                    /\ IF Raised(r.status)
                       THEN /\ Crash(r.status, {f})
                            /\ local' = r.fs
                            /\ last' = [f |-> f, status |-> r.status,
                                        found |-> r.fs[k], deleted |-> FALSE]
                            /\ UNCHANGED <<failed_files, idx>>
                       ELSE /\ local' = Cleanup(r.fs, f, r.status, os_sep)
                            /\ failed_files' = IF r.status # "success"
                                               THEN Append(failed_files, f)
                                               ELSE failed_files
                            /\ last' = [f |-> f, status |-> r.status,
                                        found |-> r.fs[k],
                                        deleted |-> (local' # r.fs)]
                            /\ idx' = idx + 1
                            /\ pc' = IF idx = Len(missing_files) THEN "report" ELSE "pull"
                            /\ err' = err
                    /\ mutated' = (mutated \/ t \in Contents \/ local' # local)
    /\ UNCHANGED <<os_sep, src_type, remote, args, missing_files, existing_files,
                   missing_dirs, existing_dirs, bad_files, verify_deleted,
                   start_empty,
                   reply, prev>>

\* The counts of the report, lines 323-324.
num_of_failed_pulls == Len(failed_files)
num_of_successful_pulls == Len(missing_files) - num_of_failed_pulls

\* main, lines 323-335: the report of the counts and of the failed files.
Report ==
    /\ pc = "report"
    /\ pc' = "reported"
    /\ UNCHANGED <<os_sep, src_type, remote, local, err, args, missing_files,
                   existing_files, missing_dirs, existing_dirs, bad_files,
                   failed_files, idx, attempts, last, mutated, verify_deleted,
                   start_empty, all_intact,
                   reply, prev>>

Terminal == {"aborted", "crashed", "done", "reported"}

Plain(a) == ~a.verify /\ ~a.auto /\ ~a.override

\* The program is run again on the tree the last run left: nothing is kept
\* between runs but the local tree.
Restart ==
    /\ pc \in Terminal
    /\ prev' = IF Plain(args) /\ pc = "reported"
               THEN IF failed_files # <<>> THEN "plain_failed"
                    ELSE IF missing_files # <<>> THEN "plain_pulled" ELSE "plain_idle"
               ELSE "none"
    /\ start_empty' = EmptyTree(local)
    /\ pc' = "start"
    /\ err' = NoErr
    /\ args' = NoArgs
    /\ missing_files' = <<>> /\ existing_files' = <<>>
    /\ missing_dirs' = <<>> /\ existing_dirs' = <<>>
    /\ bad_files' = <<>>
    /\ failed_files' = <<>>
    /\ idx' = 0
    /\ attempts' = [p \in Paths |-> 0]
    /\ last' = NoLast
    /\ mutated' = FALSE
    /\ verify_deleted' = {}
    /\ all_intact' = TRUE
    /\ reply' = "none"
    /\ UNCHANGED <<os_sep, src_type, remote, local>>

Next ==
    \/ ParseAndValidate
    \/ Reconcile
    \/ CreateDirs
    \/ CallCreateDirs
    \/ VerifyStep
    \/ OverrideStep
    \/ PullOne
    \/ Report
    \/ Restart

Spec == Init /\ [][Next]_vars

TypeOK ==
    /\ os_sep \in Seps
    /\ remote \in [Paths -> Entries]
    /\ local \in [Keys -> Entries]
    /\ WellFormed(local)
    /\ pc \in {"start", "reconcile", "create_dirs", "verify", "override", "pull",
               "report", "call", "returned"} \cup Terminal

\* ------------------------------------------------------------------ claims

\* The snapshots R and L, read off the two trees without the program's
\* listings and conversions.  When the source root is a file, R is that file
\* alone: what else lies in its directory is no part of the source.
CanonKey(p) == Split(p, "/")
InSource(p) == src_type = "file" => p = filename
RFiles == {p \in Paths : remote[p].kind = "file" /\ InSource(p)}
RDirs  == {p \in Paths : remote[p].kind = "dir" /\ InSource(p)}
LFiles == {p \in Paths : local[CanonKey(p)].kind = "file"}
LDirs  == {p \in Paths : local[CanonKey(p)].kind = "dir"}

NoDuplicates(q) == \A i, j \in DOMAIN q : i # j => q[i] # q[j]

\* C1: right after get_missing_and_existing_files has returned, the missing
\* and existing files are disjoint, their union is R.files, the missing ones
\* are R.files minus L.files and the existing ones R.files intersect L.files;
\* the same for the directories with R.dirs and L.dirs.
C1_ReconcileSets ==
    (pc = "create_dirs" /\ src_type = "directory") =>
        /\ Range(missing_files) = RFiles \ LFiles
        /\ Range(existing_files) = RFiles \cap LFiles
        /\ Range(missing_files) \cap Range(existing_files) = {}
        /\ Range(missing_files) \cup Range(existing_files) = RFiles
        /\ Range(missing_dirs) = RDirs \ LDirs
        /\ Range(existing_dirs) = RDirs \cap LDirs
        /\ Range(missing_dirs) \cap Range(existing_dirs) = {}
        /\ Range(missing_dirs) \cup Range(existing_dirs) = RDirs

\* C1 witness: a reconciliation on the platform with the other separator that
\* finds a nested file existing and another file missing.
C1_Witness ==
    /\ pc = "create_dirs" /\ src_type = "directory" /\ os_sep = "\\"
    /\ PAB \in Range(existing_files)
    /\ PC \in Range(missing_files)
    /\ existing_dirs # <<>>

\* A path that is a file on one side and a directory on the other.
TypeConflict(p) ==
    \/ p \in RFiles /\ local[CanonKey(p)].kind = "dir"
    \/ p \in RDirs /\ local[CanonKey(p)].kind = "file"

\* C2: whenever a path is a file on one side and a directory on the other, the
\* run gets no further than the creation of the directories: it fails with a
\* type-conflict error that names the path, before any change of the local tree.
C2_TypeConflictFailsFirst ==
    \A p \in Paths :
        (/\ TypeConflict(p)
         /\ pc \notin {"start", "reconcile", "create_dirs", "aborted", "call", "returned"}) =>
            /\ pc = "crashed"
            /\ err.kind = "TypeError"
            /\ p \in err.at
            /\ ~mutated

\* C3: for every file the pull loop attempts: no local file after the transfer
\* gives not_pulled and no deletion; a local file of another size gives
\* wrong_size and the file is deleted; equal sizes and different digests give
\* wrong_hash and the file is deleted; equal sizes and digests give success
\* and the file is kept.
C3_PullClassification ==
    last.status # "none" =>
        LET f == last.f
            k == CanonKey(f)
        IN  /\ last.found.kind # "file" =>
                last.status = "not_pulled" /\ ~last.deleted
            /\ (last.found.kind = "file" /\ last.found.size # remote[f].size) =>
                last.status = "wrong_size" /\ last.deleted /\ local[k].kind = "none"
            /\ (/\ last.found.kind = "file"
                /\ last.found.size = remote[f].size
                /\ last.found.digest # remote[f].digest) =>
                last.status = "wrong_hash" /\ last.deleted /\ local[k].kind = "none"
            /\ (last.found.kind = "file" /\ last.found = remote[f]) =>
                last.status = "success" /\ ~last.deleted /\ local[k] = last.found

\* C4: verify returns exactly the existing files whose digest differs or whose
\* size differs between the two sides: a differing digest alone and a
\* differing size alone both count, and a file that matches in both is left out.
C4_VerifyExact ==
    [][(pc = "verify" /\ (args.verify \/ args.auto)) =>
         /\ Range(bad_files') =
               {f \in Range(existing_files) :
                   \/ remote[f].digest # local[CanonKey(f)].digest
                   \/ remote[f].size # local[CanonKey(f)].size}
         /\ NoDuplicates(bad_files')]_vars

\* C4 witness: verify has reported a file whose size alone differs and has
\* left out a file that matches (the deletion was declined).
C4_Witness ==
    /\ pc = "override"
    /\ \E f \in Range(bad_files) :
          /\ local[CanonKey(f)].kind = "file"
          /\ local[CanonKey(f)].digest = remote[f].digest
          /\ local[CanonKey(f)].size # remote[f].size
    /\ \E f \in Range(existing_files) : local[CanonKey(f)] = remote[f]

\* C5: a failed transfer never ends the run: the file is put on the failed
\* list and the loop goes on, so a run that entered the pull loop does not end
\* before the report.
C5_FailedPullGoesOn ==
    last.status \notin {"none", "success"} =>
        /\ pc # "crashed"
        /\ last.f \in Range(failed_files)

\* C6 as stated: after a run with no flag that reached its report, the
\* reconciliation of a second such run finds no missing file.
C6_SecondRunNothingMissing ==
    (/\ prev \in {"plain_failed", "plain_pulled", "plain_idle"}
     /\ Plain(args)
     /\ pc = "create_dirs") => missing_files = <<>>

\* C6 amended: after a run with no flag that reached its report with no
\* failed pull, the reconciliation of a second such run finds no missing file.
C6_SecondRunAfterCleanRun ==
    (/\ prev \in {"plain_pulled", "plain_idle"}
     /\ Plain(args)
     /\ pc = "create_dirs") => missing_files = <<>>

\* C6 witness: the second reconciliation after a run that pulled files, all
\* with success, among them a nested one on the platform with the other
\* separator.
C6_Witness ==
    /\ prev = "plain_pulled" /\ Plain(args) /\ pc = "create_dirs"
    /\ os_sep = "\\"
    /\ PAB \in Range(existing_files)

\* C7: from an empty destination and with every transfer delivering the remote
\* bytes, reconciliation reports every remote directory and every remote file
\* missing, and at the report the local tree is the remote tree, sizes and
\* digests included, the success count is the number of remote files and the
\* failure count is 0.
C7_EndToEnd ==
    (start_empty /\ all_intact) =>
        /\ pc = "create_dirs" =>
              /\ Range(missing_files) = RFiles
              /\ Range(missing_dirs) = RDirs
              /\ existing_files = <<>> /\ existing_dirs = <<>>
        /\ pc = "reported" =>
              /\ \A p \in Paths :
                    local[CanonKey(p)] =
                        IF p \in RFiles \cup RDirs THEN remote[p] ELSE NoEntry
              /\ num_of_successful_pulls = Cardinality(RFiles)
              /\ num_of_failed_pulls = 0

\* C7 witness: the report of a run that pulled two files, one of them nested,
\* into an empty destination.
C7_Witness ==
    /\ pc = "reported" /\ start_empty /\ all_intact
    /\ RFiles = {PAB, PC}
    /\ attempts[PAB] = 1 /\ attempts[PC] = 1
    /\ os_sep = "\\"

AllPrefixes(k) == {SubSeq(k, 1, i) : i \in 1..Len(k)}

\* What a call of create_all_directories on the list missing_dirs does.
C8_CreatePost ==
    LET dirs == Range(missing_dirs)
        raised == err'.kind # "none"
        blocked(d) == \E k \in AllPrefixes(CanonKey(d)) : local[k].kind = "file"
    IN  /\ raised => \E d \in dirs : blocked(d)
        /\ (\A d \in dirs : local[CanonKey(d)].kind = "dir") => local' = local
        /\ ~raised =>
              \A d \in dirs : \A k \in AllPrefixes(CanonKey(d)) : local'[k].kind = "dir"
        /\ \A d \in dirs :
              local[CanonKey(d)].kind = "file" =>
                  /\ raised
                  /\ pc' \in {"crashed", "returned"}
                  /\ local'[CanonKey(d)] = local[CanonKey(d)]

\* C8: when the first file is pulled, and from then on, every missing
\* directory exists locally as a directory, its ancestors included; a call of
\* create_all_directories raises only when a listed path or an ancestor of it
\* is a file, so a directory that exists already is no error; and a listed
\* path that is a file makes the call raise and is left as it was.
C8_DirsBeforeFiles ==
    /\ []((pc = "pull" \/ \E p \in Paths : attempts[p] > 0) =>
            \A d \in Range(missing_dirs) :
                \A k \in AllPrefixes(CanonKey(d)) : local[k].kind = "dir")
    /\ [][(pc \in {"create_dirs", "call"} => C8_CreatePost)]_vars

\* C8 witness: the first file is about to be pulled after two directories, one
\* inside the other, were missing and have been created.
C8_Witness ==
    /\ pc = "pull" /\ idx = 1
    /\ \A p \in Paths : attempts[p] = 0
    /\ missing_dirs = <<PA, PAB>>
    /\ local[CanonKey(PAB)].kind = "dir"

\* C9: in one run no path is transferred twice, the list handed to the pull
\* loop holds no path twice, and every path of that list is transferred
\* exactly once by the end of the run.
C9_EachPathOnce ==
    /\ \A p \in Paths : attempts[p] <= 1
    /\ idx >= 1 => NoDuplicates(missing_files)
    /\ (pc \in Terminal /\ idx >= 1) =>
          \A f \in Range(missing_files) : attempts[f] = 1

\* C10: by the end of a run with --auto, every file verify reported faulty has
\* left the existing list, is on the missing list, was deleted locally and was
\* pulled again.  Stated for the runs that approve the deletion with --yes,
\* where the deletion is not in question.
C10_FaultyRepulled ==
    (pc \in Terminal /\ args.auto /\ args.yes) =>
        \A f \in Range(bad_files) :
            /\ f \notin Range(existing_files)
            /\ f \in Range(missing_files)
            /\ f \in verify_deleted
            /\ attempts[f] = 1

\* C11: a run with --verify and without --auto stops right after the
\* verification has reported the faulty files: the step that verifies ends the
\* run, the override and the pull loop are never entered and no file is
\* transferred in that run.
C11_VerifyOnlyStops ==
    /\ []((args.verify /\ ~args.auto) =>
            /\ pc \notin {"override", "pull", "report", "reported"}
            /\ \A p \in Paths : attempts[p] = 0
            /\ failed_files = <<>>)
    /\ [][(pc = "verify" /\ args.verify /\ ~args.auto) =>
            /\ pc' = "done"
            /\ Range(bad_files') =
                  {f \in Range(existing_files) : local[CanonKey(f)] # remote[f]}]_vars

\* C11 witness: a run with --verify alone has ended with a faulty file
\* reported and another file still missing, and has transferred nothing.
C11_Witness ==
    /\ pc = "done" /\ args.verify /\ ~args.auto
    /\ bad_files # <<>>
    /\ Range(missing_files) \ Range(bad_files) # {}
    /\ \A p \in Paths : attempts[p] = 0

\* C12: when --override is given and confirmed, the override moves every
\* existing file to the missing list, so that the list is the remote file set
\* and every remote file has been transferred once when the run ends; when
\* --override is not given, or is given and declined, the list stays as it was
\* and no file still on the existing list is transferred.  The confirmed case
\* is stated for --yes and for runs without --verify, which reach the override.
C12_OverridePullsAll ==
    /\ [][pc = "override" =>
            /\ (args.override /\ args.yes) =>
                  /\ missing_files' = missing_files \o existing_files
                  /\ Range(missing_files') = RFiles
            /\ (~args.override) => missing_files' = missing_files
            /\ missing_files' \in {missing_files, missing_files \o existing_files}]_vars
    /\ [](~args.override =>
            \A f \in Range(existing_files) : attempts[f] = 0)
    /\ []((/\ pc \in Terminal
           /\ idx >= 1
           /\ args.override /\ args.yes
           /\ \A p \in Paths : ~TypeConflict(p)) =>
            \A f \in RFiles : attempts[f] = 1)

\* C13: a failed check of the adb path, of the destination directory, of the
\* device or of the source path ends the run on the spot: the lists are never
\* computed, no directory is created, no file is transferred or deleted and
\* the local tree is what it was; a source path that does not exist never
\* gets to the reconciliation.
C13_PreconditionAborts ==
    /\ []((src_type = "none" /\ pc \notin {"call", "returned"}) =>
            pc \in {"start", "aborted"})
    /\ [](err.kind \in {"bad_adb", "bad_dst", "no_device", "no_source"} =>
            /\ pc = "aborted"
            /\ ~mutated
            /\ verify_deleted = {}
            /\ \A p \in Paths : attempts[p] = 0
            /\ missing_files = <<>> /\ existing_files = <<>>
            /\ missing_dirs = <<>> /\ existing_dirs = <<>>
            /\ idx = 0)
    /\ [][pc' = "aborted" =>
            /\ pc = "start"
            /\ local' = local
            /\ err'.kind \in {"bad_adb", "bad_dst", "no_device", "no_source"}]_vars

\* C13 witness: a run has stopped at the check of the device although a
\* remote directory and a remote file were missing locally.
C13_Witness ==
    /\ pc = "aborted" /\ err.kind = "no_device"
    /\ RDirs \ LDirs # {}
    /\ RFiles \ LFiles # {}
    /\ ~mutated

\* C14: a run that has passed the checks and the reconciliation, with no path
\* that is a file on one side and a directory on the other, and that was not
\* started with --verify, ends at the report, where the counts add up to the
\* length of the pull list and every file that was not pulled with success is
\* on the failed list.
C14_ReportReached ==
    (/\ pc \in Terminal \ {"aborted"}
     /\ ~args.verify
     /\ \A p \in Paths : ~TypeConflict(p)) =>
        /\ pc = "reported"
        /\ num_of_successful_pulls + num_of_failed_pulls = Len(missing_files)
        /\ \A f \in Range(missing_files) :
              f \in Range(failed_files) <=> local[CanonKey(f)] # remote[f]

\* C15: when the source path is a file, the reconciliation looks at the one
\* local path of that name and lists nothing: both directory lists are empty
\* whatever lies beside the file on either side; the file is the one existing
\* file when the local path is a file, the one missing file when the local
\* path does not exist, and when the local path is a directory the run ends
\* with a TypeError naming the file, the local tree being as it was.
C15_SingleFile ==
    [][(pc = "reconcile" /\ src_type = "file") =>
         LET entry == local[CanonKey(filename)]
         IN  /\ local' = local /\ ~mutated'
             /\ missing_dirs' = <<>> /\ existing_dirs' = <<>>
             /\ entry.kind = "file" =>
                   /\ pc' = "create_dirs"
                   /\ existing_files' = <<filename>> /\ missing_files' = <<>>
             /\ entry.kind = "none" =>
                   /\ pc' = "create_dirs"
                   /\ missing_files' = <<filename>> /\ existing_files' = <<>>
             /\ entry.kind = "dir" =>
                   /\ pc' = "crashed"
                   /\ err' = [kind |-> "TypeError", at |-> {filename}]
                   /\ missing_files' = <<>> /\ existing_files' = <<>>]_vars

\* C15 witness: the source file has been found existing while a remote
\* directory beside it, absent locally, is on no list.
C15_Witness ==
    /\ pc = "create_dirs" /\ src_type = "file"
    /\ existing_files = <<filename>> /\ missing_files = <<>>
    /\ remote[PA].kind = "dir" /\ local[CanonKey(PA)].kind = "none"
    /\ missing_dirs = <<>>

\* C16: when a run that entered the pull loop has ended, every file it
\* transferred is either a local file with the remote size and digest, and
\* not on the failed list, or locally absent (the next reconciliation, which
\* reads the local tree alone, then finds it missing again); this covers the
\* files that existed locally before their transfer.  Stated for trees where
\* no path is a file on one side and a directory on the other.
C16_SelfHealing ==
    (pc \in Terminal /\ \A p \in Paths : ~TypeConflict(p)) =>
        \A f \in Paths :
            attempts[f] > 0 =>
                \/ local[CanonKey(f)] = remote[f] /\ f \notin Range(failed_files)
                \/ local[CanonKey(f)].kind = "none"

\* C17: the verification step deletes a local file only when verify reported
\* it faulty and the deletion was approved, by --yes or by a yes to the
\* question: every path the step changes is a file that differed from the
\* remote one in size or digest and is gone afterwards; after a no, and when
\* the question was not asked without --yes, the local tree is what it was; a
\* file equal to the remote one is never touched.
C17_DeleteNeedsFaultAndYes ==
    [][pc = "verify" =>
         LET Faulty == {f \in RFiles \cap LFiles : local[CanonKey(f)] # remote[f]}
             Changed == {k \in Keys : local'[k] # local[k]}
         IN  /\ \A k \in Changed :
                   /\ local'[k] = NoEntry
                   /\ \E f \in Faulty : CanonKey(f) = k /\ f \in Range(bad_files')
             /\ Changed # {} =>
                   /\ args.verify \/ args.auto
                   /\ args.yes \/ reply' = "yes"
             /\ reply' = "no" => local' = local
             /\ (~args.yes /\ reply' = "none") => local' = local
             /\ \A f \in RFiles \cap LFiles :
                   local[CanonKey(f)] = remote[f] => local'[CanonKey(f)] = local[CanonKey(f)]]_vars

\* C17 witness: the deletion was declined and the faulty file is still there,
\* beside a file that equals the remote one.
C17_Witness ==
    /\ pc = "override" /\ reply = "no"
    /\ \E f \in Range(bad_files) :
          local[CanonKey(f)].kind = "file" /\ local[CanonKey(f)] # remote[f]
    /\ \E f \in Range(existing_files) : local[CanonKey(f)] = remote[f]

\* C18: no step of a run, under any flags, deletes, overwrites or creates a
\* local file at a path that is not a file of the remote listing (of the
\* source file alone, when the source is a file); a local directory is never
\* changed, and the only directories created are those of the remote listing
\* (of the list handed over, when create_all_directories is called on its
\* own).
C18_Frame ==
    [][\A p \in Paths :
         LET k == CanonKey(p)
         IN  /\ (p \notin RFiles /\ "file" \in {local[k].kind, local'[k].kind}) =>
                   local'[k] = local[k]
             /\ local[k].kind = "dir" => local'[k] = local[k]
             /\ (local[k].kind = "none" /\ local'[k].kind = "dir") =>
                   IF pc = "call" THEN \E d \in Range(missing_dirs) :
                                           k \in AllPrefixes(CanonKey(d))
                   ELSE p \in RDirs]_vars

\* C18 witness: a run has deleted a faulty file and pulled it again, and a
\* local file that is no remote file is still in place.
C18_Witness ==
    /\ pc = "reported"
    /\ verify_deleted # {}
    /\ \E f \in verify_deleted : attempts[f] = 1
    /\ \E p \in Paths \ RFiles : local[CanonKey(p)].kind = "file"

====
